---- MODULE Spec2Model ----
(***************************************************************************)
(* log2csv (src/main.rs): a JSON log document, a list of per-file update   *)
(* records, is turned into one CSV table per update category.              *)
(*                                                                         *)
(* Spec      the whole of main(): read, parse, logs_to_tables (one step    *)
(*           per record, per file and per fold step), make_dir_if_required *)
(*           and export_csv (one step per writer and per CSV record).      *)
(* SpecPure  logs_to_tables on a document of one record, which applies    *)
(*           make_header_row and get_log_values to a record drawn from a   *)
(*           wider set of field lists.                                     *)
(***************************************************************************)
EXTENDS Naturals, Sequences, FiniteSets, TLC

VARIABLES
    pc,         \* where main() stands
    doc,        \* Logs: the parsed document, a sequence of FileLog
    fi,         \* make_headers_and_rows: index of the FileLog being converted
    li,         \* convert_logs: number of records of that file already handled
    headers,    \* Headers: category -> column names
    rows,       \* convert_logs' local Rows of the file being converted
    rows_map,   \* Vec<Rows>: the collected per-file row maps
    ai,         \* fill_tables: number of per-file row maps already folded in
    tables,     \* Tables: category -> Table {names, rows}
    dir,        \* the output directory: "unseen", "kept", "created"
    files,      \* resource name -> CSV records it holds
    todo,       \* export_csv: categories the map iterator has not yielded yet
    cur,        \* export_table: category being written, NoTable between tables
    wi,         \* write_to_csv: number of records of cur already written
    exported    \* categories whose export_table has returned Ok, in order

vars == <<pc, doc, fi, li, headers, rows, rows_map, ai, tables, dir, files,
          todo, cur, wi, exported>>

(***************************************************************************)
(* Bounds of the model.                                                    *)
(***************************************************************************)
MaxFiles == 2       \* FileLog entries of a document (Spec)
MaxLogs == 2        \* records of a document, over all its files (Spec)
MaxPairs == 2       \* length of old and of new (SpecPure)
MaxInfo == 1        \* length of info (SpecPure)

(***************************************************************************)
(* Data: Update, Log, FileLog, Logs.                                       *)
(***************************************************************************)
Update(k, v) == [key |-> k, value |-> v]

Log(n, o, w, i) == [name |-> n, old |-> o, new |-> w, info |-> i]

FileLog(n, l) == [name |-> n, logs |-> l]

Categories == {"rename", "chmod"}

EmptyMap == <<>>

NoTable == "-"

SeqsUpTo(S, n) == UNION {[1..k -> S] : k \in 0..n}

\* Field lists <<old, new, info>> of the records of Spec: old and new paired,
\* new shorter than old, new longer than old, and info present or not. The
\* old and new entries differ in key and in value.
PipeShapes ==
    { <<(<<Update("path", "/a")>>), (<<Update("dest", "/b")>>), <<>>>>,
      <<(<<Update("path", "/a")>>), <<>>, <<>>>>,
      <<(<<>>), (<<Update("dest", "/b")>>), (<<Update("user", "x")>>)>>,
      <<(<<Update("path", "/a")>>), (<<Update("dest", "/b")>>), (<<Update("user", "x")>>)>> }

PipeLogs == {Log(n, s[1], s[2], s[3]) : n \in Categories, s \in PipeShapes}

\* Field lists of the records of SpecPure: two entries share a key, two share
\* a value.
Updates == {Update("path", "/a"), Update("path", "/b"), Update("mode", "/a")}

PureLogs == {Log(n, o, w, i) : n \in {"rename"}, o \in SeqsUpTo(Updates, MaxPairs), w \in SeqsUpTo(Updates, MaxPairs), i \in SeqsUpTo(Updates, MaxInfo)}

FileName(i) == "f" \o ToString(i) \o ".txt"

\* The log lists of nf files that hold at most budget records together.
RECURSIVE LogLists(_, _)
LogLists(nf, budget) ==
    IF nf = 0 THEN {<<>>}
    ELSE UNION {{Append(d, l) : d \in LogLists(nf - 1, budget - n), l \in [1..n -> PipeLogs]} : n \in 0..budget}

Docs == UNION {{[i \in 1..nf |-> FileLog(FileName(i), ll[i])] : ll \in LogLists(nf, MaxLogs)} : nf \in 0..MaxFiles}

(***************************************************************************)
(* make_header_row, get_log_values.                                        *)
(***************************************************************************)
\* for o in &log.old: push "old_"+key, push "new_"+key
RECURSIVE HeaderPairs(_)
HeaderPairs(old) ==
    IF old = <<>> THEN <<>>
    ELSE <<"old_" \o Head(old).key, "new_" \o Head(old).key>> \o HeaderPairs(Tail(old))

\* for i in &log.info: push i.key
InfoKeys(info) == [j \in 1..Len(info) |-> info[j].key]

\* mutant: the pairs are named after the keys of new
make_header_row_new_keys(log) == <<"file-name">> \o HeaderPairs(log.new) \o InfoKeys(log.info)

make_header_row(log) == <<"file-name">> \o HeaderPairs(log.old) \o InfoKeys(log.info)

\* for (o, n) in log.old.iter().zip(&log.new): push o.value, push n.value
RECURSIVE ZipValues(_, _)
ZipValues(old, new) ==
    IF old = <<>> \/ new = <<>> THEN <<>>
    ELSE <<Head(old).value, Head(new).value>> \o ZipValues(Tail(old), Tail(new))

\* for i in &log.info: push i.value
InfoValues(info) == [j \in 1..Len(info) |-> info[j].value]

\* mutant: the new value is pushed before the old value
get_log_values_new_first(file_name, log) == <<file_name>> \o ZipValues(log.new, log.old) \o InfoValues(log.info)

\* mutant: the info values are pushed before the pairs
get_log_values_info_first(file_name, log) == <<file_name>> \o InfoValues(log.info) \o ZipValues(log.old, log.new)

get_log_values(file_name, log) == <<file_name>> \o ZipValues(log.old, log.new) \o InfoValues(log.info)

(***************************************************************************)
(* insert_header, insert_row, Table, make_tables, append_rows.             *)
(***************************************************************************)
Put(m, k, v) == [x \in DOMAIN m \cup {k} |-> IF x = k THEN v ELSE m[x]]

\* mutant: the header is inserted whether or not the category has one
insert_header_overwrite(log, hs) == Put(hs, log.name, make_header_row(log))

\* mutant: the test of contains_key is inverted
insert_header_inverted(log, hs) ==
    IF log.name \in DOMAIN hs THEN Put(hs, log.name, make_header_row(log)) ELSE hs

insert_header(log, hs) ==
    IF log.name \notin DOMAIN hs THEN Put(hs, log.name, make_header_row(log)) ELSE hs

\* mutant: the row is always inserted as a new list
insert_row_replace(file_name, log, rs) == Put(rs, log.name, <<get_log_values(file_name, log)>>)

insert_row(file_name, log, rs) ==
    IF log.name \in DOMAIN rs
    THEN [rs EXCEPT ![log.name] = Append(@, get_log_values(file_name, log))]
    ELSE Put(rs, log.name, <<get_log_values(file_name, log)>>)

TableNew(names) == [names |-> names, rows |-> <<>>]

\* mutant: the rows are assigned, not appended
add_rows_replace(table, rs) == [table EXCEPT !.rows = rs]

add_rows(table, rs) == [table EXCEPT !.rows = @ \o rs]

make_tables(hs) == [k \in DOMAIN hs |-> TableNew(hs[k])]

\* tables.get_mut(name).unwrap() panics on a name the tables do not hold
AppendPanics(ts, rs) == \E name \in DOMAIN rs : name \notin DOMAIN ts

\* mutant: the returned map is built from the keys of the rows
append_rows_rebuild(ts, rs) == [k \in DOMAIN rs \cap DOMAIN ts |-> add_rows(ts[k], rs[k])]

append_rows(ts, rs) ==
    [k \in DOMAIN ts |-> IF k \in DOMAIN rs THEN add_rows(ts[k], rs[k]) ELSE ts[k]]

(***************************************************************************)
(* main(): read_file, serde_json::from_str(..).unwrap()                    *)
(***************************************************************************)
\* mutant: the error of make_csv_writer is dropped and the loop goes on
RaiseButCreate(e) == IF e = "create" THEN "export" ELSE "failed_" \o e

\* the ? of main, export_convertion, export_csv and export_table: the error
\* is returned at once
Raise(e) == "failed_" \o e

Init ==
    /\ pc = "read"
    /\ doc = <<>>
    /\ fi = 1
    /\ li = 0
    /\ headers = EmptyMap
    /\ rows = EmptyMap
    /\ rows_map = <<>>
    /\ ai = 0
    /\ tables = EmptyMap
    /\ dir = "unseen"
    /\ files = EmptyMap
    /\ todo = {}
    /\ cur = NoTable
    /\ wi = 0
    /\ exported = <<>>

ReadFile ==
    /\ pc = "read"
    /\ \/ pc' = "parse"
       \/ pc' = Raise("read")
    /\ UNCHANGED <<doc, fi, li, headers, rows, rows_map, ai, tables, dir, files, todo, cur, wi, exported>>

Parse ==
    /\ pc = "parse"
    /\ \/ \E d \in Docs : doc' = d /\ pc' = "convert"
       \/ doc' = doc /\ pc' = "panicked_parse"
    /\ UNCHANGED <<fi, li, headers, rows, rows_map, ai, tables, dir, files, todo, cur, wi, exported>>

(***************************************************************************)
(* logs_to_tables: make_headers_and_rows, make_tables, fill_tables.        *)
(***************************************************************************)
\* one turn of convert_logs' loop: insert_header, then insert_row
ConvertLog ==
    /\ pc = "convert"
    /\ fi <= Len(doc)
    /\ li < Len(doc[fi].logs)
    /\ headers' = insert_header(doc[fi].logs[li + 1], headers)
    /\ rows' = insert_row(doc[fi].name, doc[fi].logs[li + 1], rows)
    /\ li' = li + 1
    /\ UNCHANGED <<pc, doc, fi, rows_map, ai, tables, dir, files, todo, cur, wi, exported>>

\* convert_logs returns its rows; the map's collect() takes them
ConvertLogsReturn ==
    /\ pc = "convert"
    /\ fi <= Len(doc)
    /\ li = Len(doc[fi].logs)
    /\ rows_map' = Append(rows_map, rows)
    /\ rows' = EmptyMap
    /\ fi' = fi + 1
    /\ li' = 0
    /\ UNCHANGED <<pc, doc, headers, ai, tables, dir, files, todo, cur, wi, exported>>

MakeTables ==
    /\ pc = "convert"
    /\ fi > Len(doc)
    /\ tables' = make_tables(headers)
    /\ pc' = "fill"
    /\ UNCHANGED <<doc, fi, li, headers, rows, rows_map, ai, dir, files, todo, cur, wi, exported>>

\* one step of fill_tables' fold
AppendRows ==
    /\ pc = "fill"
    /\ ai < Len(rows_map)
    /\ IF AppendPanics(tables, rows_map[ai + 1])
       THEN pc' = "panicked_append" /\ UNCHANGED <<tables, ai>>
       ELSE tables' = append_rows(tables, rows_map[ai + 1]) /\ ai' = ai + 1 /\ pc' = pc
    /\ UNCHANGED <<doc, fi, li, headers, rows, rows_map, dir, files, todo, cur, wi, exported>>

\* logs_to_tables returns ExportTable { tables }
FillReturn ==
    /\ pc = "fill"
    /\ ai = Len(rows_map)
    /\ pc' = "mkdir"
    /\ UNCHANGED <<doc, fi, li, headers, rows, rows_map, ai, tables, dir, files, todo, cur, wi, exported>>

(***************************************************************************)
(* export_convertion: make_dir_if_required, ExportTable::export_csv.       *)
(***************************************************************************)
\* make_csv_writer: base_dir.join(format!("{}.csv", name))
Resource(name) == name \o ".csv"

\* What a directory that is already there may hold: a file of an earlier run.
Stale == Put(EmptyMap, Resource("rename"), <<<<"stale">>>>)

\* Writer::from_path creates the file, or truncates the one that is there
make_csv_writer(fs, name) == Put(fs, Resource(name), <<>>)

\* mutant: the record is put before the records written so far
write_record_first(fs, name, record) == [fs EXCEPT ![Resource(name)] = <<record>> \o @]

write_record(fs, name, record) == [fs EXCEPT ![Resource(name)] = Append(@, record)]

\* the iterator of self.tables after it has yielded k
Rest(ks, k) == ks \ {k}

MakeDir ==
    /\ pc = "mkdir"
    /\ \/ dir' = "kept" /\ files' = Stale /\ pc' = "export" /\ todo' = DOMAIN tables
       \/ dir' = "created" /\ files' = EmptyMap /\ pc' = "export" /\ todo' = DOMAIN tables
       \/ pc' = Raise("mkdir") /\ UNCHANGED <<dir, files, todo>>
    /\ UNCHANGED <<doc, fi, li, headers, rows, rows_map, ai, tables, cur, wi, exported>>

\* export_csv's loop yields a table, in the hash map's order; export_table
\* opens its writer
CreateWriter ==
    /\ pc = "export"
    /\ cur = NoTable
    /\ \E k \in todo :
        /\ todo' = Rest(todo, k)
        /\ \/ files' = make_csv_writer(files, k) /\ cur' = k /\ pc' = pc
           \/ pc' = Raise("create") /\ UNCHANGED <<files, cur>>
    /\ wi' = 0
    /\ UNCHANGED <<doc, fi, li, headers, rows, rows_map, ai, tables, dir, exported>>

\* writer.write_record(self.names)?
WriteHeader ==
    /\ pc = "export"
    /\ cur # NoTable
    /\ wi = 0
    /\ \/ files' = write_record(files, cur, tables[cur].names) /\ wi' = 1 /\ UNCHANGED <<pc, cur>>
       \/ pc' = Raise("write") /\ cur' = NoTable /\ UNCHANGED <<files, wi>>
    /\ UNCHANGED <<doc, fi, li, headers, rows, rows_map, ai, tables, dir, todo, exported>>

\* for row in self.rows.into_iter(): writer.write_record(row)?
WriteRow ==
    /\ pc = "export"
    /\ cur # NoTable
    /\ wi >= 1
    /\ wi <= Len(tables[cur].rows)
    /\ \/ files' = write_record(files, cur, tables[cur].rows[wi]) /\ wi' = wi + 1 /\ UNCHANGED <<pc, cur>>
       \/ pc' = Raise("write") /\ cur' = NoTable /\ UNCHANGED <<files, wi>>
    /\ UNCHANGED <<doc, fi, li, headers, rows, rows_map, ai, tables, dir, todo, exported>>

\* write_to_csv and export_table return Ok(())
EndTable ==
    /\ pc = "export"
    /\ cur # NoTable
    /\ wi = Len(tables[cur].rows) + 1
    /\ exported' = Append(exported, cur)
    /\ cur' = NoTable
    /\ UNCHANGED <<pc, doc, fi, li, headers, rows, rows_map, ai, tables, dir, files, todo, wi>>

\* export_csv, export_convertion and main return Ok(())
ExportReturn ==
    /\ pc = "export"
    /\ cur = NoTable
    /\ todo = {}
    /\ pc' = "done"
    /\ UNCHANGED <<doc, fi, li, headers, rows, rows_map, ai, tables, dir, files, todo, cur, wi, exported>>

Next ==
    \/ ReadFile
    \/ Parse
    \/ ConvertLog
    \/ ConvertLogsReturn
    \/ MakeTables
    \/ AppendRows
    \/ FillReturn
    \/ MakeDir
    \/ CreateWriter
    \/ WriteHeader
    \/ WriteRow
    \/ EndTable
    \/ ExportReturn

Spec == Init /\ [][Next]_vars

(***************************************************************************)
(* SpecPure: logs_to_tables on a document of one file with one record,     *)
(* the record drawn from PureLogs.                                         *)
(***************************************************************************)
InitPure ==
    /\ pc = "convert"
    /\ doc \in {<<FileLog(FileName(1), <<l>>)>> : l \in PureLogs}
    /\ fi = 1
    /\ li = 0
    /\ headers = EmptyMap
    /\ rows = EmptyMap
    /\ rows_map = <<>>
    /\ ai = 0
    /\ tables = EmptyMap
    /\ dir = "unseen"
    /\ files = EmptyMap
    /\ todo = {}
    /\ cur = NoTable
    /\ wi = 0
    /\ exported = <<>>

NextPure == ConvertLog \/ ConvertLogsReturn \/ MakeTables \/ AppendRows \/ FillReturn

SpecPure == InitPure /\ [][NextPure]_vars

(***************************************************************************)
(* The document as the claims read it: its records in document order.      *)
(***************************************************************************)
FileRecs(f) == [i \in 1..Len(f.logs) |-> [file |-> f.name, log |-> f.logs[i]]]

RECURSIVE AllRecs(_)
AllRecs(d) == IF Len(d) = 0 THEN <<>> ELSE FileRecs(d[1]) \o AllRecs(Tail(d))

\* the records of category c, in document order
RecsOf(d, c) == SelectSeq(AllRecs(d), LAMBDA r : r.log.name = c)

CatsOf(d) == {AllRecs(d)[i].log.name : i \in 1..Len(AllRecs(d))}

\* the records convert_logs has handled so far
Handled ==
    IF fi > Len(doc) THEN AllRecs(doc)
    ELSE AllRecs(SubSeq(doc, 1, fi - 1)) \o SubSeq(FileRecs(doc[fi]), 1, li)

IsPrefix(s, t) == Len(s) <= Len(t) /\ \A i \in 1..Len(s) : s[i] = t[i]

Min(a, b) == IF a <= b THEN a ELSE b

Range(s) == {s[i] : i \in 1..Len(s)}

\* make_headers_and_rows has returned
Traversed == pc \in {"fill", "mkdir", "export", "done", "failed_mkdir", "failed_create", "failed_write"} \/ (pc = "convert" /\ fi > Len(doc))

\* logs_to_tables has returned
Built == pc \in {"mkdir", "export", "done", "failed_mkdir", "failed_create", "failed_write"}

(***************************************************************************)
(* C1: once the traversal is over, the header of every category is         *)
(* make_header_row of the first record of that category in document order, *)
(* and that is the header its table gets.                                  *)
(***************************************************************************)
C1_HeaderFirstWins ==
    Traversed =>
        \A c \in CatsOf(doc) :
            /\ c \in DOMAIN headers
            /\ headers[c] = make_header_row(RecsOf(doc, c)[1].log)
            /\ pc # "convert" => c \in DOMAIN tables /\ tables[c].names = headers[c]

\* a category whose second record would give another header than its first
C1_Witness ==
    /\ pc = "mkdir"
    /\ \E c \in CatsOf(doc) :
        /\ Len(RecsOf(doc, c)) >= 2
        /\ make_header_row(RecsOf(doc, c)[2].log) # make_header_row(RecsOf(doc, c)[1].log)

(***************************************************************************)
(* C2: the rows of table c are get_log_values of the records of category c *)
(* in file order, then record order; as many rows as records.              *)
(***************************************************************************)
C2_RowsInDocumentOrder ==
    Built =>
        \A c \in DOMAIN tables :
            /\ Len(tables[c].rows) = Len(RecsOf(doc, c))
            /\ \A i \in 1..Len(RecsOf(doc, c)) :
                tables[c].rows[i] = get_log_values(RecsOf(doc, c)[i].file, RecsOf(doc, c)[i].log)

\* two files with one record of the same category each: two rows, file order
C2_Witness ==
    /\ pc = "mkdir"
    /\ Len(doc) = 2
    /\ Len(doc[1].logs) = 1
    /\ Len(doc[2].logs) = 1
    /\ doc[1].logs[1].name = "rename"
    /\ doc[2].logs[1].name = "rename"
    /\ tables["rename"].rows[1][1] = doc[1].name
    /\ tables["rename"].rows[2][1] = doc[2].name

(***************************************************************************)
(* C3: the tables are exactly the categories that occur in the document,   *)
(* each with at least one row; while the traversal runs the headers are    *)
(* exactly the categories of the records handled so far, and a file with   *)
(* an empty log list gives an empty row map.                               *)
(***************************************************************************)
C3_TablesAreCategories ==
    /\ pc \in {"convert", "fill"} \/ Built =>
        /\ DOMAIN headers = {Handled[i].log.name : i \in 1..Len(Handled)}
        /\ \A i \in 1..Len(rows_map) :
            DOMAIN rows_map[i] = {doc[i].logs[j].name : j \in 1..Len(doc[i].logs)}
    /\ pc = "fill" => DOMAIN tables = CatsOf(doc)
    /\ Built =>
        /\ DOMAIN tables = CatsOf(doc)
        /\ \A c \in DOMAIN tables : Len(tables[c].rows) >= 1

\* a file with an empty log list beside a file with a record
C3_Witness ==
    /\ pc = "mkdir"
    /\ \E i \in 1..Len(doc) : doc[i].logs = <<>>
    /\ Cardinality(DOMAIN tables) = 1

(***************************************************************************)
(* C9: append_rows never misses a table. Every category of the row map of  *)
(* the file being converted, and of every collected row map, has a header; *)
(* every category of a row map that fill_tables folds in has a table.      *)
(***************************************************************************)
C9_AppendNeverPanics ==
    /\ pc # "panicked_append"
    /\ DOMAIN rows \subseteq DOMAIN headers
    /\ \A i \in 1..Len(rows_map) : DOMAIN rows_map[i] \subseteq DOMAIN headers
    /\ pc = "fill" => \A i \in 1..Len(rows_map) : ~AppendPanics(tables, rows_map[i])

\* append_rows has looked up the tables of a row map of two categories
C9_Witness ==
    /\ pc = "fill"
    /\ ai >= 1
    /\ Cardinality(DOMAIN rows_map[ai]) = 2

(***************************************************************************)
(* C4: get_log_values(f, r) is f, then for i up to the shorter of old and  *)
(* new the i-th old value and the i-th new value, then the info values;    *)
(* what the longer of old and new holds beyond that is dropped, no key is  *)
(* read.                                                                   *)
(***************************************************************************)
C4_RowProjection ==
    \A c \in DOMAIN rows :
        LET r == doc[fi].logs[li]
            f == doc[fi].name
            n == Min(Len(r.old), Len(r.new))
            row == rows[c][Len(rows[c])]
        IN  /\ c = r.name
            /\ Len(row) = 1 + 2 * n + Len(r.info)
            /\ row[1] = f
            /\ \A i \in 1..n : row[2 * i] = r.old[i].value /\ row[2 * i + 1] = r.new[i].value
            /\ \A j \in 1..Len(r.info) : row[1 + 2 * n + j] = r.info[j].value
            /\ (r.old = <<Update("path", "/a"), Update("mode", "/a")>>
                /\ r.new = <<Update("path", "/b"), Update("path", "/a")>>
                /\ r.info = <<Update("mode", "/a")>>)
               => row = <<f, "/a", "/b", "/a", "/a", "/a">>

\* a record whose old is longer than its new, so that an old entry is dropped
C4_Witness ==
    /\ "rename" \in DOMAIN rows
    /\ Len(doc[1].logs[1].old) = 2
    /\ Len(doc[1].logs[1].new) = 1
    /\ Len(doc[1].logs[1].info) = 1
    /\ Len(rows["rename"][1]) = 4

(***************************************************************************)
(* C5: make_header_row(r) is "file-name", then "old_"+key and "new_"+key   *)
(* for the key of each old entry, then the info keys: 1 + 2*|old| + |info| *)
(* names, whatever new holds. The record rename, old path=/a, new path=/b, *)
(* of file f1.txt gives the header file-name, old_path, new_path and the   *)
(* row f1.txt, /a, /b.                                                     *)
(***************************************************************************)
C5_HeaderShape ==
    \A c \in DOMAIN headers :
        LET r == doc[1].logs[1]
            h == headers[c]
        IN  /\ c = r.name
            /\ Len(h) = 1 + 2 * Len(r.old) + Len(r.info)
            /\ h[1] = "file-name"
            /\ \A i \in 1..Len(r.old) :
                /\ h[2 * i] = "old_" \o r.old[i].key
                /\ h[2 * i + 1] = "new_" \o r.old[i].key
            /\ \A j \in 1..Len(r.info) : h[1 + 2 * Len(r.old) + j] = r.info[j].key
            /\ (r.old = <<Update("path", "/a")>> /\ r.new = <<Update("path", "/b")>> /\ r.info = <<>>)
               => /\ h = <<"file-name", "old_path", "new_path">>
                  /\ rows_map # <<>> => rows_map[1][c] = << <<"f1.txt", "/a", "/b">> >>
                  /\ pc = "mkdir" => tables[c] = [names |-> h, rows |-> << <<"f1.txt", "/a", "/b">> >>]

\* the header of a record whose new holds other keys, and fewer, than its old
C5_Witness ==
    /\ pc = "mkdir"
    /\ doc[1].logs[1].old = <<Update("path", "/a"), Update("mode", "/a")>>
    /\ doc[1].logs[1].new = <<Update("mode", "/a")>>
    /\ tables["rename"].names = <<"file-name", "old_path", "new_path", "old_mode", "new_mode">>

(***************************************************************************)
(* C6: rows and header of a table line up for the records whose field      *)
(* counts are those of the category's first record.                        *)
(***************************************************************************)
\* as many old and as many info entries as the first record of the category
SameCounts(r, first) == Len(r.old) = Len(first.old) /\ Len(r.info) = Len(first.info)

\* the row has the header's length, and position j of the row holds the value
\* that column j of the header names: the file name, the i-th old value under
\* old_<key>, the i-th new value under new_<key>, the k-th info value under
\* the k-th info key
RowAligned(t, row, rec, first) ==
    LET r == rec.log
        n == Len(first.old)
    IN  /\ Len(row) = Len(t.names)
        /\ t.names[1] = "file-name" /\ row[1] = rec.file
        /\ \A i \in 1..n :
            /\ t.names[2 * i] = "old_" \o first.old[i].key
            /\ row[2 * i] = r.old[i].value
            /\ t.names[2 * i + 1] = "new_" \o first.old[i].key
            /\ i <= Len(r.new)
            /\ row[2 * i + 1] = r.new[i].value
        /\ \A k \in 1..Len(first.info) :
            /\ t.names[1 + 2 * n + k] = first.info[k].key
            /\ row[1 + 2 * n + k] = r.info[k].value

\* C6 as claimed: every record with the old and info counts of the first
\* record of its category has an aligned row. It fails for a record whose new
\* is shorter than its old, the first record of a category included.
C6_AlignedWhenCountsMatch ==
    Built =>
        \A c \in DOMAIN tables :
            \A i \in 1..Len(RecsOf(doc, c)) :
                SameCounts(RecsOf(doc, c)[i].log, RecsOf(doc, c)[1].log)
                => RowAligned(tables[c], tables[c].rows[i], RecsOf(doc, c)[i], RecsOf(doc, c)[1].log)

\* C6 amended: every record with the old and info counts of the first record
\* of its category, and with at least as many new entries as old entries, has
\* an aligned row.
C6_AlignedWhenNewCoversOld ==
    Built =>
        \A c \in DOMAIN tables :
            \A i \in 1..Len(RecsOf(doc, c)) :
                (/\ SameCounts(RecsOf(doc, c)[i].log, RecsOf(doc, c)[1].log)
                 /\ Len(RecsOf(doc, c)[i].log.new) >= Len(RecsOf(doc, c)[i].log.old))
                => RowAligned(tables[c], tables[c].rows[i], RecsOf(doc, c)[i], RecsOf(doc, c)[1].log)

\* a table of two aligned rows with an old/new pair and an info column
C6_Witness ==
    /\ pc = "mkdir"
    /\ \E c \in DOMAIN tables :
        /\ Len(RecsOf(doc, c)) = 2
        /\ Len(RecsOf(doc, c)[1].log.old) = 1
        /\ Len(RecsOf(doc, c)[1].log.info) = 1
        /\ RecsOf(doc, c)[1].file # RecsOf(doc, c)[2].file
        /\ \A i \in 1..2 :
            /\ SameCounts(RecsOf(doc, c)[i].log, RecsOf(doc, c)[1].log)
            /\ Len(RecsOf(doc, c)[i].log.new) >= Len(RecsOf(doc, c)[i].log.old)
            /\ Len(tables[c].rows[i]) = 4

(***************************************************************************)
(* C7: what export_csv writes.                                             *)
(***************************************************************************)
\* the CSV records of table k: the header, then the rows as accumulated
Full(k) == <<tables[k].names>> \o tables[k].rows

Exporting == pc \in {"export", "done", "failed_create", "failed_write"}

\* C7 as claimed: when export_csv has returned, the resource of every table
\* holds its header and then its rows, whatever the order of iteration. It
\* fails when a create or a write fails: the tables not yet written are then
\* never written, and which ones they are depends on the order of iteration.
C7_EveryTableWritten ==
    pc \in {"done", "failed_create", "failed_write"} =>
        \A k \in DOMAIN tables :
            Resource(k) \in DOMAIN files /\ files[Resource(k)] = Full(k)

\* C7 amended: when export_csv returns Ok, the resource <category>.csv of
\* every table holds the header and then the rows in accumulation order, each
\* table was written once, and the files are a function of the tables alone,
\* not of the order of iteration. Before that, and when a create or a write
\* fails: a finished table's resource holds all its records, the resource
\* being written holds the first wi of them (the header first), no table is
\* yielded twice, and no other file is touched.
C7_ExportContentAndOrder ==
    Exporting =>
        /\ Range(exported) \subseteq DOMAIN tables
        /\ \A i, j \in 1..Len(exported) : exported[i] = exported[j] => i = j
        /\ \A i \in 1..Len(exported) : files[Resource(exported[i])] = Full(exported[i])
        /\ todo \cap Range(exported) = {}
        /\ cur # NoTable =>
            /\ cur \in DOMAIN tables
            /\ cur \notin Range(exported) \cup todo
            /\ files[Resource(cur)] = SubSeq(Full(cur), 1, wi)
        /\ \A k \in DOMAIN tables : \A m \in DOMAIN tables : Resource(k) = Resource(m) => k = m
        /\ \A f \in DOMAIN files :
            \/ \E k \in DOMAIN tables \ todo : f = Resource(k) /\ IsPrefix(files[f], Full(k))
            \/ dir = "kept" /\ f \in DOMAIN Stale /\ files[f] = Stale[f]
        /\ pc = "done" =>
            /\ Range(exported) = DOMAIN tables
            /\ DOMAIN files = {Resource(k) : k \in DOMAIN tables} \cup (IF dir = "kept" THEN DOMAIN Stale ELSE {})
            /\ \A k \in DOMAIN tables : files[Resource(k)] = Full(k)

\* two tables exported, chmod first, over a file of an earlier run
C7_Witness ==
    /\ pc = "done"
    /\ dir = "kept"
    /\ exported = <<"chmod", "rename">>
    /\ Len(files["rename.csv"]) = 2
    /\ Len(files["chmod.csv"]) = 2

(***************************************************************************)
(* C8: failures stop the run, in the order read, parse, build tables,      *)
(* create directory, export.                                               *)
(***************************************************************************)
NothingBuilt == headers = EmptyMap /\ rows = EmptyMap /\ rows_map = <<>> /\ tables = EmptyMap

NothingWritten == dir = "unseen" /\ files = EmptyMap /\ todo = {} /\ cur = NoTable /\ exported = <<>>

Failed == {"failed_read", "panicked_parse", "panicked_append", "failed_mkdir", "failed_create", "failed_write"}

Stage(p) ==
    CASE p = "read" -> 1
      [] p = "parse" -> 2
      [] p = "convert" -> 3
      [] p = "fill" -> 4
      [] p = "mkdir" -> 5
      [] p = "export" -> 6
      [] OTHER -> 7

\* the tables export_csv's loop has yielded and not finished
Unfinished == (DOMAIN tables \ todo) \ Range(exported)

C8_State ==
    /\ pc \in {"read", "parse", "failed_read", "panicked_parse"} => doc = <<>> /\ NothingBuilt /\ NothingWritten
    /\ pc \in {"convert", "fill", "mkdir", "failed_mkdir"} => NothingWritten
    /\ pc = "export" => Unfinished = (IF cur = NoTable THEN {} ELSE {cur})
    /\ pc \in {"failed_create", "failed_write"} =>
        /\ cur = NoTable
        /\ Cardinality(Unfinished) = 1
        /\ \A i \in 1..Len(exported) : files[Resource(exported[i])] = Full(exported[i])
        /\ \A k \in todo : Resource(k) \in DOMAIN files => dir = "kept" /\ files[Resource(k)] = Stale[Resource(k)]
    /\ pc = "done" => todo = {} /\ Unfinished = {} /\ Range(exported) = DOMAIN tables

C8_Step ==
    /\ pc \notin Failed \cup {"done"}
    /\ Stage(pc') >= Stage(pc)
    /\ pc' = "done" => pc = "export"
    /\ pc' \in {"failed_create", "failed_write"} => exported' = exported /\ todo' \subseteq todo

\* C8: a failed read or parse leaves nothing built and nothing written; a
\* failed directory creation leaves no file written; a failed create or write
\* leaves the finished files as they are and the tables not yet yielded
\* unwritten; no step follows a failure, and done is reached only with every
\* table exported.
C8_FailStop == []C8_State /\ [][C8_Step]_vars

\* the second table's writer could not be created: the first file stays
C8_Witness ==
    /\ pc = "failed_create"
    /\ Len(exported) = 1
    /\ todo = {}
    /\ files[Resource(exported[1])] = Full(exported[1])

(***************************************************************************)
(* C10: headers and rows only grow.                                        *)
(***************************************************************************)
C10_Step ==
    /\ \A c \in DOMAIN headers : c \in DOMAIN headers' /\ headers'[c] = headers[c]
    /\ \A c \in DOMAIN tables :
        /\ c \in DOMAIN tables'
        /\ tables'[c].names = tables[c].names
        /\ IsPrefix(tables[c].rows, tables'[c].rows)
    /\ li' = li + 1 => \A c \in DOMAIN rows : c \in DOMAIN rows' /\ IsPrefix(rows[c], rows'[c])
    /\ IsPrefix(rows_map, rows_map')
    /\ ai' = ai + 1 =>
        \A c \in DOMAIN tables :
            IF c \in DOMAIN rows_map[ai + 1]
            THEN tables'[c].rows = tables[c].rows \o rows_map[ai + 1][c]
            ELSE tables'[c] = tables[c]

\* C10: no step changes or removes a stored header; a step that adds rows
\* appends them, so the rows before the step are a prefix of the rows after
\* it; the step that folds in the rows of one file leaves the rows of the
\* categories that file lacks, and every header, as they were.
C10_MonotonicAccumulation == [][C10_Step]_vars

\* the rows of the second file were appended to a table the first file filled
C10_Witness ==
    /\ pc = "fill"
    /\ ai = 2
    /\ \E c \in DOMAIN tables : Len(tables[c].rows) = 2 /\ c \in DOMAIN rows_map[1] /\ c \in DOMAIN rows_map[2]
====
